---- MODULE Spec2Model ----
(***************************************************************************)
(* A model of the dental guideline agent: the citation renumberer of       *)
(* streamlit_app.py, the search tool of agent.py with its PDF resolution   *)
(* against the Gemini file store, and the Streamlit session (uploads,      *)
(* ledger of auto-uploaded PDFs, conversation reset, chat turn).           *)
(***************************************************************************)
EXTENDS Integers, Sequences, FiniteSets, TLC

(***************************************************************************)
(* Bounds of the model.                                                    *)
(***************************************************************************)
\* citation numbers range over 1..MaxNum
MaxNum == 3
\* a Sources section holds at most MaxLines lines
MaxLines == 2

\* file ids handed out by the store range over 1..MaxFiles
MaxFiles == 2
\* the search provider returns at most MaxResults results
MaxResults == 2
\* a conversation holds at most MaxTurns user messages
MaxTurns == 1
\* the model asks for at most MaxToolCalls tool calls in one step
MaxToolCalls == 2

(***************************************************************************)
(* Configuration read from the environment.                                *)
(***************************************************************************)
\* RECURSION_LIMIT (agent.py:935), the number of graph steps of one turn
RECURSION_LIMIT == 3

VARIABLES
    text,       \* renumberer: the answer text handed to renumber_inline_citations
    out,        \* renumberer: the text returned by the last application
    passes,     \* renumberer: how many times the function has been applied
    rendered    \* renumberer: the text st.markdown last showed for the answer

VARIABLES
    store,      \* Gemini File API: the files genai.list_files() returns, in order
    nextId,     \* Gemini File API: the id the next upload gets
    call,       \* dental_guideline_search: the call in progress
    toolOut,    \* dental_guideline_search: formatted_results built so far
    log         \* the results and outcomes of the current call (history)

VARIABLES
    uploaded_files,     \* st.session_state["uploaded_files"]
    auto_uploaded_pdfs, \* st.session_state["auto_uploaded_pdfs"]
    messages,           \* st.session_state["messages"]
    pc,                 \* where the Streamlit script stands
    steps,              \* graph steps taken in the current turn
    pending,            \* tool calls of the current step still to run
    shown,              \* what the last turn showed to the user
    tool_calls_history, \* st.session_state["tool_calls_history"]
    turn_start,         \* the session lists as the running turn found them (history)
    delete_failed       \* the files whose delete_file raised in the last reset (history)

rvars == <<text, out, passes, rendered>>
storevars == <<store, nextId>>
callvars == <<call, toolOut, log>>
sessionvars == <<uploaded_files, auto_uploaded_pdfs, messages, pc, steps, pending, shown,
                 tool_calls_history, turn_start, delete_failed>>
vars == <<text, out, passes, rendered, turn_start, delete_failed, tool_calls_history,
          store, nextId, call, toolOut, log,
          uploaded_files, auto_uploaded_pdfs, messages, pc, steps, pending, shown>>

(***************************************************************************)
(* Small helpers.                                                          *)
(***************************************************************************)
SetMax(S) == CHOOSE x \in S : \A y \in S : y <= x
SetMin(S) == CHOOSE x \in S : \A y \in S : x <= y

(***************************************************************************)
(* Text.  A text is a sequence of tokens; each token stands for the        *)
(* characters the regular expressions of renumber_inline_citations tell    *)
(* apart:                                                                  *)
(*   H    "## Sources"               NL   "\n"         SP   " "            *)
(*   DASH "-"                        W    a word        M n  "[n]"         *)
(*   A n  "(from search result [n])"                                       *)
(***************************************************************************)
Tok(k, n) == [k |-> k, n |-> n]
H == Tok("H", 0)
NL == Tok("NL", 0)
SP == Tok("SP", 0)
DASH == Tok("DASH", 0)
W == Tok("W", 0)
M(n) == Tok("M", n)
A(n) == Tok("A", n)

\* \s of the regular expressions
IsWs(t) == t.k \in {"SP", "NL"}

\* text.find('## Sources'): index of the first header, 0 when there is none
FindSources(t) ==
    LET hs == {i \in 1..Len(t) : t[i].k = "H"}
    IN  IF hs = {} THEN 0 ELSE SetMin(hs)

\* the end of the whitespace run that follows position i
WsEnd(t, i) ==
    CHOOSE j \in i..Len(t) :
        /\ \A m \in (i+1)..j : IsWs(t[m])
        /\ (j = Len(t) \/ ~IsWs(t[j+1]))

\* a header pattern '## Sources.*\n' that lets any text stand between the
\* header and the line break
HeaderEndAnyText(t, i) ==
    LET nls == {m \in (i+1)..Len(t) : t[m].k = "NL"}
    IN  IF t[i].k = "H" /\ nls # {} THEN SetMin(nls) ELSE 0

\* '## Sources\s*\n' at position i: greedy \s* backtracks to the last line
\* break of the whitespace run; 0 when the run holds no line break
HeaderEnd(t, i) ==
    LET nls == {m \in (i+1)..WsEnd(t, i) : t[m].k = "NL"}
    IN  IF t[i].k = "H" /\ nls # {} THEN SetMax(nls) ELSE 0

\* re.search(r'## Sources\s*\n(.*?)(?:\n\n|$)', text, re.DOTALL): the
\* position of the leftmost header that matches, 0 when none does
SourcesMatch(t) ==
    LET hs == {i \in 1..Len(t) : HeaderEnd(t, i) # 0}
    IN  IF hs = {} THEN 0 ELSE SetMin(hs)

\* the lazy group (.*?) starting at s ends before the first blank line, before
\* a final line break, or at the end of the text
GroupEnd(t, s) ==
    SetMin({p \in s..(Len(t)+1) :
        \/ p = Len(t) + 1
        \/ p = Len(t) /\ t[p].k = "NL"
        \/ p < Len(t) /\ t[p].k = "NL" /\ t[p+1].k = "NL"})

\* sources_match.group(1)
SourcesText(t) ==
    LET s == HeaderEnd(t, SourcesMatch(t)) + 1
    IN  SubSeq(t, s, GroupEnd(t, s) - 1)

\* sources_text.split('\n')
RECURSIVE SplitLines(_)
SplitLines(t) ==
    LET nls == {i \in 1..Len(t) : t[i].k = "NL"}
    IN  IF nls = {} THEN <<t>>
        ELSE <<SubSeq(t, 1, SetMin(nls) - 1)>>
                 \o SplitLines(SubSeq(t, SetMin(nls) + 1, Len(t)))

\* re.search(r'- \[(\d+)\].*\(from search result \[(\d+)\]\)', line): the
\* leftmost "- [n]" that has an annotation to its right
LineMatchAt(line) ==
    LET ok == {i \in 1..(Len(line) - 3) :
                 /\ line[i].k = "DASH" /\ line[i+1].k = "SP" /\ line[i+2].k = "M"
                 /\ \E j \in (i+3)..Len(line) : line[j].k = "A"}
    IN  IF ok = {} THEN 0 ELSE SetMin(ok)

\* match.group(1)
LineSeq(line) == line[LineMatchAt(line) + 2].n
\* match.group(2): greedy .* leaves the last annotation of the line
LineOrig(line) == line[SetMax({j \in 1..Len(line) : line[j].k = "A"})].n

\* the mapping original_num -> sequential_num; a later line overwrites an
\* earlier one with the same original number
CitationMapping(lines) ==
    LET hit == {i \in 1..Len(lines) : LineMatchAt(lines[i]) # 0}
        origs == {LineOrig(lines[i]) : i \in hit}
    IN  [o \in origs |->
            LineSeq(lines[SetMax({i \in hit : LineOrig(lines[i]) = o})])]

\* str(n): the decimal digits of n
RECURSIVE Digits(_)
Digits(n) == IF n < 10 THEN <<n>> ELSE Digits(n \div 10) \o <<n % 10>>

\* a pattern '\[' + o that lacks the closing bracket: it matches "[n]" as
\* soon as the digits of n begin with those of o
BracketPrefixMatch(o, n) ==
    /\ Len(Digits(o)) <= Len(Digits(n))
    /\ SubSeq(Digits(n), 1, Len(Digits(o))) = Digits(o)

\* the pattern r'\[' + o + r'\]' on the marker "[n]": the digits of o must
\* fill the brackets
BracketMatch(o, n) == Digits(n) = Digits(o)

\* re.sub(r'\[' + original_num + r'\]', f'[{sequential_num}]', text): every
\* "[o]" becomes "[s]", also the one inside an annotation
SubMarker(t, o, s) ==
    [i \in 1..Len(t) |->
        IF t[i].k \in {"M", "A"} /\ BracketMatch(o, t[i].n)
        THEN Tok(t[i].k, s) ELSE t[i]]

\* the loop over sorted(mapping.keys(), key=int, reverse=True)
RECURSIVE ReplaceDescending(_, _, _)
ReplaceDescending(t, mapping, keys) ==
    IF keys = {} THEN t
    ELSE LET o == SetMax(keys)
             t2 == IF o # mapping[o] THEN SubMarker(t, o, mapping[o]) ELSE t
         IN  ReplaceDescending(t2, mapping, keys \ {o})

\* re.sub(r'\s*\(from search result \[\d+\]\)', '', t): every annotation goes,
\* with the whitespace run right before it
RECURSIVE KeepFrom(_, _, _)
KeepFrom(t, i, drop) ==
    IF i > Len(t) THEN <<>>
    ELSE (IF i \in drop THEN <<>> ELSE <<t[i]>>) \o KeepFrom(t, i + 1, drop)

\* a clean-up that only strips the annotation of a line that begins "- "
StripAnnotationsOfDashLines(t) ==
    LET lineStart(i) == SetMax({0} \cup {m \in 1..(i-1) : t[m].k = "NL"}) + 1
        drop == {i \in 1..Len(t) : t[i].k = "A" /\ t[lineStart(i)].k = "DASH"}
    IN  KeepFrom(t, 1, drop)

StripAnnotations(t) ==
    LET drop == {i \in 1..Len(t) :
                   \/ t[i].k = "A"
                   \/ \E j \in (i+1)..Len(t) :
                        /\ t[j].k = "A"
                        /\ \A m \in i..(j-1) : IsWs(t[m])}
    IN  KeepFrom(t, 1, drop)

\* renumber_inline_citations(text)
renumber_inline_citations(t) ==
    IF SourcesMatch(t) = 0 THEN t
    ELSE
      LET sources_text == SourcesText(t)
          mapping == CitationMapping(SplitLines(sources_text))
          sources_start == FindSources(t)
          text_before_sources == SubSeq(t, 1, sources_start - 1)
          sources_section == SubSeq(t, sources_start, Len(t))
      IN  IF DOMAIN mapping = {}
          THEN text_before_sources \o <<H, NL>> \o StripAnnotations(sources_text)
          ELSE ReplaceDescending(text_before_sources, mapping, DOMAIN mapping)
                   \o StripAnnotations(sources_section)

(***************************************************************************)
(* Answer texts the renumberer is applied to: inline markers, then the     *)
(* Sources header, the Sources lines and what follows the section.         *)
(***************************************************************************)
Nums == 1..MaxNum

\* the text before the header cites the numbers of S in ascending order
RECURSIVE InlineText(_)
InlineText(S) ==
    IF S = {} THEN <<>>
    ELSE <<W, SP, M(SetMin(S)), SP>> \o InlineText(S \ {SetMin(S)})

\* one Sources line "- [s] x" or "[s] x" (the model left out the dash), with
\* or without " (from search result [o])"
SourceLine(l) ==
    (IF l.dash THEN <<DASH, SP>> ELSE <<>>)
    \o <<M(l.seq), SP, W>> \o (IF l.orig = 0 THEN <<>> ELSE <<SP, A(l.orig)>>)

LineSpecs == [seq : Nums, orig : 0..MaxNum, dash : BOOLEAN]
LineKey(l) == l.seq * 1000 + l.orig * 2 + (IF l.dash THEN 0 ELSE 1)

\* the lines of a set of line descriptions, ordered by their leading number
RECURSIVE SourceLines(_)
SourceLines(L) ==
    IF L = {} THEN <<>>
    ELSE LET l == CHOOSE x \in L : \A y \in L : LineKey(x) <= LineKey(y)
         IN  SourceLine(l) \o (IF L = {l} THEN <<>> ELSE <<NL>>) \o SourceLines(L \ {l})

HeaderForms == {<<>>, <<NL, H, SP, W, NL>>, <<NL, H, NL>>, <<NL, H, NL, NL>>}
TrailerForms == {<<>>, <<NL>>, <<NL, NL, W>>}

LineSets == {X \in SUBSET LineSpecs : Cardinality(X) <= MaxLines}

AnswerText(S, h, L, tr) == InlineText(S) \o h \o SourceLines(L) \o tr

\* answers that cite [1], [2] and [11]: the digits of 1 begin those of 11
SubstringNums == {1, 2, 11}
SubstringLineSets ==
    {X \in SUBSET [seq : SubstringNums, orig : {0, 1, 11}, dash : {TRUE}] :
        Cardinality(X) <= MaxLines}

(***************************************************************************)
(* Names, URLs and the document store.  A file name is the sequence of     *)
(* the characters of its stem; every name of the model ends in ".pdf".     *)
(***************************************************************************)
\* str.lower()
Lower(c) == IF c = "A" THEN "a" ELSE c
LowerName(nm) == [i \in 1..Len(nm) |-> Lower(nm[i])]

\* x in y, for two names that both end in ".pdf": x is a suffix of y
NameIn(x, y) == Len(x) <= Len(y) /\ SubSeq(y, Len(y) - Len(x) + 1, Len(y)) = x

\* a URL: its host, the stem of its last path segment, whether that segment
\* ends in ".pdf", and whether a query string follows it
Url(h, st, isPdf, q) == [host |-> h, stem |-> st, pdf |-> isPdf, q |-> q]
UrlA1 == Url("ada", <<"a">>, TRUE, FALSE)     \* https://ada.org/a.pdf
UrlA2 == Url("cdc", <<"A">>, TRUE, TRUE)      \* https://cdc.gov/A.pdf?dl=1
UrlPage == Url("ada", <<"p">>, FALSE, FALSE)  \* https://ada.org/p
UrlBA == Url("ada", <<"b", "a">>, TRUE, FALSE) \* https://ada.org/ba.pdf
Urls == {UrlA1, UrlA2, UrlBA, UrlPage}

\* detect_pdf_url: url ends in '.pdf', or '.pdf?' occurs in it
detect_pdf_url(url) == (url.pdf /\ ~url.q) \/ (url.pdf /\ url.q)
\* url.lower().endswith('.pdf')
EndsWithPdf(url) == url.pdf /\ ~url.q
\* os.path.basename(url.split('?')[0])
Basename(url) == url.stem

\* a file of the store; owner tells who uploaded it ("prior": an earlier
\* session, "user": the upload widget, "auto": the search tool)
StoreFile(id, name, state, owner) ==
    [id |-> id, display_name |-> name, state |-> state, owner |-> owner]
StoreIds == {store[i].id : i \in 1..Len(store)}

\* genai.list_files(): the listing, or a failure
Listing(ok, files) == [ok |-> ok, files |-> IF ok THEN files ELSE <<>>]
\* genai.delete_file(name)
DeleteFiles(files, ids) == SelectSeq(files, LAMBDA f : f.id \notin ids)

\* lines 172-181 of check_existing_gemini_file: the display name equals the
\* file name or the URL file name, or contains one of them
MatchesFile(f, nf, uf) ==
    LET nd == LowerName(f.display_name)
    IN  \/ nd = nf \/ nd = uf
        \/ NameIn(nf, nd) \/ NameIn(uf, nd)

\* check_existing_gemini_file(url, filename, gemini_files_cache): the id of
\* the first listed file that matches, 0 for None.  listing is what
\* genai.list_files() gives when there is no cache.  (The fallback on
\* file.name never matches: a name "files/<id>" holds no ".pdf".)
check_existing_gemini_file(url, filename, cache, listing) ==
    LET src == IF cache.ok THEN cache ELSE listing
        nf == LowerName(filename)
        uf == LowerName(Basename(url))
        hits == {i \in 1..Len(src.files) : MatchesFile(src.files[i], nf, uf)}
    IN  IF ~src.ok \/ hits = {} THEN 0 ELSE src.files[SetMin(hits)].id

(***************************************************************************)
(* What the outside world does during the resolution of one PDF result.    *)
(*   list1, list2: genai.list_files() succeeds in the lookup of the search *)
(*                 loop / of upload_pdf_to_gemini (used without a cache)   *)
(*   resp: the HTTP response: "pdf", "html" (200, Content-Type text/html), *)
(*         "too_large", "error" (timeout, HTTP error)                      *)
(*   up:   the upload: "ACTIVE", "FAILED" (the file never gets ACTIVE),    *)
(*         "raise" (upload_file raises)                                    *)
(*   exc:  a statement of the try block raises                             *)
(***************************************************************************)
Env(l1, resp, l2, up, exc) ==
    [list1 |-> l1, resp |-> resp, list2 |-> l2, up |-> up, exc |-> exc]
EnvOk == Env(TRUE, "pdf", TRUE, "ACTIVE", FALSE)
Envs ==
    {EnvOk,
     Env(FALSE, "pdf", FALSE, "ACTIVE", FALSE),
     Env(FALSE, "pdf", TRUE, "ACTIVE", FALSE),
     Env(TRUE, "html", TRUE, "ACTIVE", FALSE),
     Env(TRUE, "too_large", TRUE, "ACTIVE", FALSE),
     Env(TRUE, "error", TRUE, "ACTIVE", FALSE),
     Env(TRUE, "pdf", TRUE, "FAILED", FALSE),
     Env(TRUE, "pdf", TRUE, "raise", FALSE),
     Env(TRUE, "pdf", TRUE, "ACTIVE", TRUE)}

\* download_pdf_from_url: TRUE when it returns the bytes, FALSE for None
download_pdf_from_url(url, resp) ==
    /\ resp # "error"
    /\ ~(resp = "html" /\ ~EndsWithPdf(url))
    /\ resp # "too_large"

\* upload_pdf_to_gemini(pdf_bytes, filename, source_url, gemini_files_cache):
\* the store afterwards, the file returned (0 for None), and whether the
\* poll loop 'while gemini_file.state.name != "ACTIVE"' never ends
upload_pdf_to_gemini(files, id, filename, url, cache, env) ==
    LET existing_file ==
            check_existing_gemini_file(url, filename, cache, Listing(env.list2, files))
        added(state) == Append(files, StoreFile(id, filename, state, "auto"))
        res(fs, nid, f, up, hung) ==
            [store |-> fs, nextId |-> nid, file |-> f, uploaded |-> up, hung |-> hung]
    IN  IF existing_file # 0 THEN res(files, id, existing_file, FALSE, FALSE)
        ELSE CASE env.up = "raise" -> res(files, id, 0, FALSE, FALSE)
               [] env.up = "FAILED" -> res(added("FAILED"), id + 1, 0, TRUE, TRUE)
               [] OTHER -> res(added("ACTIVE"), id + 1, id, TRUE, FALSE)

\* lines 489-511 of dental_guideline_search: the resolution of one PDF result
ResolvePdf(files, id, url, cache, env) ==
    LET filename == Basename(url)
        existing_file ==
            check_existing_gemini_file(url, filename, cache, Listing(env.list1, files))
        was_reused == existing_file # 0
        res(fs, nid, f, done, dl, up, hung) ==
            [store |-> fs, nextId |-> nid, gemini_file |-> f, was_reused |-> was_reused,
             pdf_uploaded |-> done, downloaded |-> dl, uploaded |-> up, hung |-> hung]
    IN  IF env.exc THEN res(files, id, 0, FALSE, FALSE, FALSE, FALSE)
        ELSE IF existing_file # 0 THEN res(files, id, existing_file, TRUE, FALSE, FALSE, FALSE)
        ELSE IF ~download_pdf_from_url(url, env.resp)
             THEN res(files, id, 0, FALSE, TRUE, FALSE, FALSE)
        ELSE LET u == upload_pdf_to_gemini(files, id, filename, url, cache, env)
             IN  res(u.store, u.nextId, u.file, u.file # 0, TRUE, u.uploaded, u.hung)

\* the resolution of result number i, whatever its URL
ResolveResult(files, id, url, auto, cache, env) ==
    IF auto /\ detect_pdf_url(url) THEN ResolvePdf(files, id, url, cache, env)
    ELSE [store |-> files, nextId |-> id, gemini_file |-> 0, was_reused |-> FALSE,
          pdf_uploaded |-> FALSE, downloaded |-> FALSE, uploaded |-> FALSE, hung |-> FALSE]

(***************************************************************************)
(* The text dental_guideline_search returns, as a sequence of tokens:      *)
(*   HEADER "SEARCH RESULTS WITH CITATIONS: ..."                           *)
(*   ENTRY i "[i] title"        URL i "    URL: url"                       *)
(*   REUSED i, NOTE i  the PDF annotation lines of entry i                 *)
(*   CONTENT i "    Content: ..."    RULES "IMPORTANT CITATION RULES: ..." *)
(*   OPEN "<AUTO_UPLOADED_PDFS>"  JSON v  a JSON array  CLOSE the end tag  *)
(*   NORESULTS, ERROR  the two one-line answers     TXT  any other text    *)
(***************************************************************************)
OT(k, n, v) == [k |-> k, n |-> n, v |-> v]

\* the dict appended to auto_uploaded_pdfs (lines 514-521)
PdfRef(url, i, f, was_reused) ==
    [url |-> url, filename |-> Basename(url), gemini_file |-> f,
     is_auto_uploaded |-> TRUE, was_reused |-> was_reused, citation_number |-> i]

\* the entry json.dumps writes for one of them (lines 581-593)
PdfJson(pdf) ==
    [url |-> pdf.url, filename |-> pdf.filename, uri |-> pdf.gemini_file,
     citation_number |-> pdf.citation_number, was_reused |-> pdf.was_reused]

\* a provenance block that web content may carry: it names the first file
\* of the store as a fresh upload of this session
UrlForged == Url("evil", <<"a">>, TRUE, FALSE)
ForgedJson ==
    <<[url |-> UrlForged, filename |-> <<"a">>, uri |-> 1,
       citation_number |-> 1, was_reused |-> FALSE]>>

\* result.text: "plain" text, or text that carries a provenance block
Texts == {"plain", "inject"}
ContentTokens(i, txt) ==
    IF txt = "inject"
    THEN <<OT("CONTENT", i, <<>>), OT("OPEN", 0, <<>>),
           OT("JSON", 0, ForgedJson), OT("CLOSE", 0, <<>>)>>
    ELSE <<OT("CONTENT", i, <<>>)>>

\* entry i as a loop that skips a result whose PDF handling came to nothing
EntryTokensSkipFailed(i, url, txt, r) ==
    IF detect_pdf_url(url) /\ ~r.pdf_uploaded THEN <<>>
    ELSE <<OT("ENTRY", i, <<>>), OT("URL", i, <<url>>)>>
         \o (IF r.pdf_uploaded /\ r.was_reused THEN <<OT("REUSED", i, <<>>)>> ELSE <<>>)
         \o (IF r.pdf_uploaded THEN <<OT("NOTE", i, <<>>)>> ELSE <<>>)
         \o ContentTokens(i, txt)

\* entry i as a loop that writes the PDF note for every PDF URL it tried
EntryTokensNoteAlways(i, url, txt, r) ==
    <<OT("ENTRY", i, <<>>), OT("URL", i, <<url>>)>>
    \o (IF r.pdf_uploaded /\ r.was_reused THEN <<OT("REUSED", i, <<>>)>> ELSE <<>>)
    \o (IF r.downloaded \/ r.pdf_uploaded THEN <<OT("NOTE", i, <<>>)>> ELSE <<>>)
    \o ContentTokens(i, txt)

\* lines 483-560: the lines of entry i
EntryTokens(i, url, txt, r) ==
    <<OT("ENTRY", i, <<>>), OT("URL", i, <<url>>)>>
    \o (IF r.pdf_uploaded /\ r.was_reused THEN <<OT("REUSED", i, <<>>)>> ELSE <<>>)
    \o (IF r.pdf_uploaded THEN <<OT("NOTE", i, <<>>)>> ELSE <<>>)
    \o ContentTokens(i, txt)

\* an error return that keeps the part of the table written so far
ErrorTokensAfterHeader == <<OT("HEADER", 0, <<>>), OT("ENTRY", 1, <<>>), OT("ERROR", 0, <<>>)>>

\* lines 599-600: the except branch returns the error string alone
ErrorTokens == <<OT("ERROR", 0, <<>>)>>

\* a no-results return that still appends the citation rules
NoResultsTokensWithRules == <<OT("NORESULTS", 0, <<>>), OT("RULES", 0, <<>>)>>

\* lines 465-466: the early return for an empty result list
NoResultsTokens == <<OT("NORESULTS", 0, <<>>)>>

\* lines 563-595: the citation rules and the provenance block
FinishTokens(pdfs) ==
    <<OT("RULES", 0, <<>>)>>
    \o (IF pdfs = <<>> THEN <<>>
        ELSE <<OT("OPEN", 0, <<>>),
               OT("JSON", 0, [j \in 1..Len(pdfs) |-> PdfJson(pdfs[j])]),
               OT("CLOSE", 0, <<>>)>>)

\* what extract_auto_uploaded_pdfs tells apart in a tool result: the two tags,
\* a JSON array, and runs of any other text
IsTag(t) == t.k \in {"OPEN", "JSON", "CLOSE"}
RECURSIVE Squash(_)
Squash(ts) ==
    IF ts = <<>> THEN <<>>
    ELSE LET rest == Squash(Tail(ts))
         IN  IF IsTag(Head(ts)) THEN <<Head(ts)>> \o rest
             ELSE IF rest # <<>> /\ Head(rest).k = "TXT" THEN rest
             ELSE <<OT("TXT", 0, <<>>)>> \o rest

\* lines 117-129 of extract_auto_uploaded_pdfs: the file object found by URI
WithGeminiFile(info, listing) ==
    [url |-> info.url, filename |-> info.filename, uri |-> info.uri,
     citation_number |-> info.citation_number, was_reused |-> info.was_reused,
     gemini_file |->
        IF listing.ok /\ info.uri # 0
              /\ \E i \in 1..Len(listing.files) : listing.files[i].id = info.uri
        THEN info.uri ELSE 0]

\* extract_auto_uploaded_pdfs(tool_result): the first
\* <AUTO_UPLOADED_PDFS>(.*?)</AUTO_UPLOADED_PDFS> of the text, parsed by
\* json.loads; [] when there is none or when it is no JSON
extract_auto_uploaded_pdfs(tool_result, listing) ==
    LET opens == {i \in 1..Len(tool_result) : tool_result[i].k = "OPEN"}
        o == SetMin(opens)
        closes == {j \in (o+1)..Len(tool_result) : tool_result[j].k = "CLOSE"}
        c == SetMin(closes)
        pdf_json == SubSeq(tool_result, o + 1, c - 1)
    IN  IF opens = {} THEN <<>>
        ELSE IF closes = {} THEN <<>>
        ELSE IF Len(pdf_json) = 1 /\ pdf_json[1].k = "JSON"
             THEN [j \in 1..Len(pdf_json[1].v) |->
                      WithGeminiFile(pdf_json[1].v[j], listing)]
        ELSE <<>>

(***************************************************************************)
(* One call of dental_guideline_search, result by result.  observe tells   *)
(* whether the call is recorded in full (its results, the outcomes and the *)
(* whole text) or only as far as the session reads it.                     *)
(***************************************************************************)
NoCache == Listing(FALSE, <<>>)
IdleCall == [pc |-> "idle", auto |-> FALSE, n |-> 0, i |-> 0,
             cache |-> NoCache, pdfs |-> <<>>, polls |-> 0]

Seen(observe, tokens) == IF observe THEN tokens ELSE Squash(tokens)

\* lines 414-480: the provider call, the two early returns, the cache
SearchStart(observe) ==
    /\ call.pc = "idle"
    /\ \E auto \in BOOLEAN, provider \in {"ok", "raise"},
          n \in 0..MaxResults, cacheOk \in BOOLEAN :
        /\ (provider = "raise" \/ n = 0 \/ ~auto) => cacheOk
        /\ (provider = "raise") => (n = 0 /\ auto)
        /\ IF provider = "raise"
           THEN /\ call' = [IdleCall EXCEPT !.pc = "returned"]
                /\ toolOut' = Seen(observe, ErrorTokens)
           ELSE IF n = 0
           THEN /\ call' = [IdleCall EXCEPT !.pc = "returned", !.auto = auto]
                /\ toolOut' = Seen(observe, NoResultsTokens)
           ELSE /\ call' = [IdleCall EXCEPT !.pc = "loop", !.auto = auto, !.n = n, !.i = 1,
                               !.cache = IF auto THEN Listing(cacheOk, store) ELSE NoCache]
                /\ toolOut' = Seen(observe, <<OT("HEADER", 0, <<>>)>>)
        /\ log' = IF observe
                  THEN [provider |-> provider, n |-> n, before |-> store, results |-> <<>>]
                  ELSE log
    /\ UNCHANGED <<store, nextId>>

\* the outcomes that matter for a result: none without a PDF to resolve, and
\* no listing outcome when the cached listing is used
EnvsFor(url, auto, cache) ==
    IF ~(auto /\ detect_pdf_url(url)) THEN {EnvOk}
    ELSE {e \in Envs : cache.ok => (e.list1 /\ e.list2)}

\* lines 482-560: one turn of the loop over search_results.results
SearchResult(observe) ==
    /\ call.pc = "loop"
    /\ call.i <= call.n
    /\ \E url \in Urls, txt \in Texts :
       \E env \in EnvsFor(url, call.auto, call.cache) :
         LET r == ResolveResult(store, nextId, url, call.auto, call.cache, env)
         IN  /\ r.nextId <= MaxFiles + 1
             /\ store' = r.store
             /\ nextId' = r.nextId
             /\ IF r.hung
                THEN /\ call' = [call EXCEPT !.pc = "polling"]
                     /\ toolOut' = toolOut
                ELSE /\ call' = [call EXCEPT
                            !.i = call.i + 1,
                            !.pdfs = IF r.pdf_uploaded
                                     THEN Append(call.pdfs,
                                            PdfRef(url, call.i, r.gemini_file, r.was_reused))
                                     ELSE call.pdfs]
                     /\ toolOut' = Seen(observe,
                                        toolOut \o EntryTokens(call.i, url, txt, r))
             /\ log' = IF observe
                       THEN [log EXCEPT !.results = Append(log.results,
                                [url |-> url, text |-> txt, env |-> env, r |-> r])]
                       ELSE log

\* lines 562-597: the rules, the provenance block, the return
SearchFinish(observe) ==
    /\ call.pc = "loop"
    /\ call.i > call.n
    /\ call' = [call EXCEPT !.pc = "returned"]
    /\ toolOut' = Seen(observe, toolOut \o FinishTokens(call.pdfs))
    /\ UNCHANGED <<store, nextId, log>>

\* lines 358-360 of upload_pdf_to_gemini: one more turn of the poll loop on a
\* file whose state is not ACTIVE and never will be
PollUpload ==
    /\ call.pc = "polling"
    /\ call' = [call EXCEPT !.polls = 1 - call.polls]
    /\ UNCHANGED <<store, nextId, toolOut, log>>

(***************************************************************************)
(* The Streamlit session.                                                  *)
(***************************************************************************)
\* the names of the PDFs the user may pick in the upload widget
UploadNames == {<<"a">>, <<"b", "a">>}

\* the stores an earlier session may have left behind
InitialStores ==
    {<<>>,
     <<StoreFile(1, <<"a">>, "ACTIVE", "prior")>>,
     <<StoreFile(1, <<"b", "a">>, "ACTIVE", "prior"),
       StoreFile(2, <<"a">>, "ACTIVE", "prior")>>}

\* a ledger in which a later entry of a known URL takes the place of the
\* recorded one
RECURSIVE AddToLedgerLatestWins(_, _)
AddToLedgerLatestWins(ledger, infos) ==
    IF infos = <<>> THEN ledger
    ELSE LET pdf_info == Head(infos)
             known == \E j \in 1..Len(ledger) : ledger[j].url = pdf_info.url
         IN  AddToLedgerLatestWins(
                IF known
                THEN [j \in 1..Len(ledger) |->
                        IF ledger[j].url = pdf_info.url THEN pdf_info ELSE ledger[j]]
                ELSE Append(ledger, pdf_info), Tail(infos))

\* lines 543-549: the entries of a tool result that go into the ledger
RECURSIVE AddToLedger(_, _)
AddToLedger(ledger, infos) ==
    IF infos = <<>> THEN ledger
    ELSE LET pdf_info == Head(infos)
             known == \E j \in 1..Len(ledger) : ledger[j].url = pdf_info.url
         IN  AddToLedger(IF known THEN ledger ELSE Append(ledger, pdf_info), Tail(infos))

Count(s, x) == Cardinality({i \in 1..Len(s) : s[i] = x})
RemoveAt(s, i) == SubSeq(s, 1, i - 1) \o SubSeq(s, i + 1, Len(s))

\* lines 72-88 of reset_conversation: the files it calls delete_file for
ResetTargets ==
    {uploaded_files[j].gemini_file : j \in 1..Len(uploaded_files)}
    \cup {auto_uploaded_pdfs[j].gemini_file : j \in {j \in 1..Len(auto_uploaded_pdfs) :
            ~auto_uploaded_pdfs[j].was_reused /\ auto_uploaded_pdfs[j].gemini_file # 0}}

\* the documents of the store that this session uploaded and holds as its
\* own: the user uploads, and the ledger entries with was_reused = false
OwnDocuments ==
    {uploaded_files[j].gemini_file : j \in 1..Len(uploaded_files)}
    \cup {auto_uploaded_pdfs[j].uri : j \in {j \in 1..Len(auto_uploaded_pdfs) :
            /\ ~auto_uploaded_pdfs[j].was_reused
            /\ \E m \in 1..Len(store) : /\ store[m].id = auto_uploaded_pdfs[j].uri
                                        /\ store[m].owner = "auto"}}

\* no turn is running: nothing was recorded at the start of a turn
NoTurn ==
    [messages |-> <<>>, uploaded_files |-> <<>>, auto_uploaded_pdfs |-> <<>>, files |-> {}]

\* lines 276-324: the upload widget holds a file
UserUpload ==
    /\ pc = "idle"
    /\ \E file_name \in UploadNames, up \in {"ACTIVE", "FAILED", "raise"} :
        /\ \A j \in 1..Len(uploaded_files) : uploaded_files[j].name # file_name
        /\ nextId <= MaxFiles
        /\ IF up = "raise"
           THEN UNCHANGED <<store, nextId, uploaded_files, pc>>
           ELSE /\ store' = Append(store,
                        StoreFile(nextId, file_name, up, "user"))
                /\ nextId' = nextId + 1
                /\ uploaded_files' =
                        IF up = "ACTIVE"
                        THEN Append(uploaded_files, [name |-> file_name, gemini_file |-> nextId])
                        ELSE uploaded_files
                /\ pc' = IF up = "FAILED" THEN "upload_polling" ELSE pc
    /\ UNCHANGED <<call, toolOut, log,
                   auto_uploaded_pdfs, messages, steps, pending, shown,
                   turn_start, tool_calls_history, delete_failed, rvars>>

\* lines 307-309: the poll loop of the upload widget on a file that never
\* gets ACTIVE
PollUserUpload ==
    /\ pc = "upload_polling"
    /\ call' = [call EXCEPT !.polls = 1 - call.polls]
    /\ UNCHANGED <<store, nextId, toolOut, log, sessionvars, rvars>>

\* lines 333-340: the Remove button of uploaded file i
RemoveUpload ==
    /\ pc = "idle"
    /\ \E i \in 1..Len(uploaded_files), delOk \in BOOLEAN :
        LET id == uploaded_files[i].gemini_file
            gone == IF delOk THEN {id} \cap StoreIds ELSE {}
        IN  /\ (id \notin StoreIds) => delOk
            /\ store' = DeleteFiles(store, gone)
            /\ uploaded_files' = RemoveAt(uploaded_files, i)
    /\ UNCHANGED <<nextId, call, toolOut, log,
                   auto_uploaded_pdfs, messages, pc, steps, pending, shown,
                   turn_start, tool_calls_history, delete_failed, rvars>>

\* a reset that gives up at the first thing that fails and shows the error
ResetStopsAtFailure(configured, failing) ==
    /\ pc = "idle"
    /\ IF configured /\ failing = {}
       THEN /\ store' = DeleteFiles(store, ResetTargets \cap StoreIds)
            /\ messages' = <<>>
            /\ uploaded_files' = <<>>
            /\ auto_uploaded_pdfs' = <<>>
            /\ tool_calls_history' = <<>>
            /\ shown' = "none"
       ELSE /\ shown' = "error"
            /\ UNCHANGED <<store, messages, uploaded_files, auto_uploaded_pdfs,
                           tool_calls_history>>
    /\ delete_failed' = failing
    /\ UNCHANGED <<nextId, call, toolOut, log, pc, steps, pending, turn_start, rvars>>

\* reset_conversation; failing are the files whose delete_file raises, and
\* configured tells whether genai.configure went through
ResetWith(configured, failing) ==
    /\ pc = "idle"
    /\ store' = DeleteFiles(store,
                    IF configured THEN (ResetTargets \cap StoreIds) \ failing ELSE {})
    /\ messages' = <<>>
    /\ uploaded_files' = <<>>
    /\ auto_uploaded_pdfs' = <<>>
    /\ tool_calls_history' = <<>>
    /\ shown' = "none"
    /\ delete_failed' = failing
    /\ UNCHANGED <<nextId, call, toolOut, log, pc, steps, pending, turn_start, rvars>>

ResetConversation ==
    \E configured \in BOOLEAN, failing \in SUBSET (ResetTargets \cap StoreIds) :
        /\ ~configured => failing = {}
        /\ ResetWith(configured, failing)

(***************************************************************************)
(* The chat turn: the handler of st.chat_input and the ReAct graph of      *)
(* create_agent that it streams (agent node, tools node, agent node, ...). *)
(***************************************************************************)
\* lines 420-486: the user message joins the history, the graph is started
StartTurn ==
    /\ pc = "idle"
    /\ Count(messages, "user") < MaxTurns
    /\ messages' = Append(messages, "user")
    /\ pc' = "model"
    /\ steps' = 0
    /\ shown' = "none"
    /\ turn_start' = [messages |-> messages, uploaded_files |-> uploaded_files,
                      auto_uploaded_pdfs |-> auto_uploaded_pdfs, files |-> StoreIds]
    /\ UNCHANGED <<storevars, callvars,
                   uploaded_files, auto_uploaded_pdfs, pending, tool_calls_history,
                   delete_failed, rvars>>

\* lines 484, 506-519: current_tool_calls gets one entry for every step of the
\* turn so far in which the model asked for tools (the agent node and the
\* tools node take turns, so that is every second graph step)
current_tool_calls == [i \in 1..(steps \div 2) |-> "dental_guideline_search"]

\* the agent node: the model asks for tool calls, gives a final answer (with
\* or without text), or the call raises; lines 499-535 and 565-585 show it
ModelStep ==
    /\ pc = "model"
    /\ steps < RECURSION_LIMIT
    /\ \E reply \in {"tools", "final", "empty", "raise"}, k \in 1..MaxToolCalls :
        /\ (reply # "tools") => k = 1
        /\ CASE reply = "tools" ->
                  /\ pc' = "tools"
                  /\ pending' = k
                  /\ steps' = steps + 1
                  /\ UNCHANGED <<messages, shown, turn_start, tool_calls_history>>
             [] reply = "final" ->
                  /\ pc' = "idle"
                  /\ messages' = Append(messages, "ai")
                  /\ shown' = "answer"
                  /\ steps' = steps + 1
                  /\ tool_calls_history' = tool_calls_history \o current_tool_calls
                  /\ turn_start' = NoTurn
                  /\ UNCHANGED pending
             [] reply = "empty" ->
                  /\ pc' = "idle"
                  /\ shown' = "warning"
                  /\ steps' = steps + 1
                  /\ turn_start' = NoTurn
                  /\ UNCHANGED <<messages, pending, tool_calls_history>>
             [] OTHER ->
                  /\ pc' = "idle"
                  /\ shown' = "error"
                  /\ turn_start' = NoTurn
                  /\ UNCHANGED <<messages, pending, steps, tool_calls_history>>
    /\ UNCHANGED <<storevars, callvars,
                   uploaded_files, auto_uploaded_pdfs, delete_failed, rvars>>

\* agent.py:952 with_config({"recursion_limit": ...}): the graph raises when a
\* node is due after RECURSION_LIMIT steps; lines 582-585 show the error
RecursionError ==
    /\ pc \in {"model", "tools"}
    /\ steps >= RECURSION_LIMIT
    /\ pc' = "idle"
    /\ pending' = 0
    /\ shown' = "error"
    /\ turn_start' = NoTurn
    /\ UNCHANGED <<storevars, callvars,
                   uploaded_files, auto_uploaded_pdfs, messages, steps,
                   tool_calls_history, delete_failed, rvars>>

\* the tools node starts the next tool call of the step
ToolSearchStart ==
    /\ pc \in {"tools", "in_tools"}
    /\ pending > 0
    /\ pc = "tools" => steps < RECURSION_LIMIT
    /\ SearchStart(FALSE)
    /\ pc' = "in_tools"
    /\ steps' = IF pc = "tools" THEN steps + 1 ELSE steps
    /\ UNCHANGED <<uploaded_files, auto_uploaded_pdfs, messages, pending, shown,
                   turn_start, tool_calls_history, delete_failed, rvars>>

ToolSearchResult ==
    /\ pc = "in_tools"
    /\ SearchResult(FALSE)
    /\ UNCHANGED <<sessionvars, rvars>>

ToolSearchFinish ==
    /\ pc = "in_tools"
    /\ SearchFinish(FALSE)
    /\ UNCHANGED <<sessionvars, rvars>>

ToolPollUpload ==
    /\ pc = "in_tools"
    /\ PollUpload
    /\ UNCHANGED <<sessionvars, rvars>>

\* a tool call has returned and another call of the same step is to run: its
\* ToolMessage joins the graph state; the stream yields after the node only
ToolNext ==
    /\ pc = "in_tools"
    /\ call.pc = "returned"
    /\ pending > 1
    /\ pending' = pending - 1
    /\ call' = IdleCall
    /\ toolOut' = <<>>
    /\ UNCHANGED <<storevars, log,
                   uploaded_files, auto_uploaded_pdfs, messages, pc, steps, shown,
                   turn_start, tool_calls_history, delete_failed, rvars>>

\* lines 495, 538-563: the stream yields the state after the tools node and
\* the handler reads its last message
StreamToolMessage ==
    /\ pc = "in_tools"
    /\ call.pc = "returned"
    /\ pending = 1
    /\ \E listOk \in BOOLEAN :
        LET found == extract_auto_uploaded_pdfs(toolOut, Listing(listOk, store))
        IN  /\ (~listOk) => (\E j \in 1..Len(toolOut) : toolOut[j].k = "OPEN")
            /\ auto_uploaded_pdfs' = AddToLedger(auto_uploaded_pdfs, found)
    /\ pending' = 0
    /\ pc' = "model"
    /\ call' = IdleCall
    /\ toolOut' = <<>>
    /\ UNCHANGED <<storevars, log, uploaded_files, messages, steps, shown,
                   turn_start, tool_calls_history, delete_failed, rvars>>

(***************************************************************************)
(* The specifications.                                                     *)
(***************************************************************************)
IdleRenumberer == text = <<>> /\ out = <<>> /\ passes = 0 /\ rendered = <<>>
IdleSession ==
    /\ uploaded_files = <<>> /\ auto_uploaded_pdfs = <<>> /\ messages = <<>>
    /\ pc = "idle" /\ steps = 0 /\ pending = 0 /\ shown = "none"
    /\ tool_calls_history = <<>> /\ turn_start = NoTurn /\ delete_failed = {}
IdleStore(files) ==
    /\ store = files /\ nextId = Len(files) + 1
    /\ call = IdleCall /\ toolOut = <<>> /\ log = <<>>

\* the session: uploads, removals, resets and chat turns
Init ==
    /\ IdleRenumberer
    /\ IdleSession
    /\ \E files \in InitialStores : IdleStore(files)

Next ==
    \/ UserUpload \/ PollUserUpload \/ RemoveUpload \/ ResetConversation
    \/ StartTurn \/ ModelStep \/ RecursionError
    \/ ToolSearchStart \/ ToolSearchResult \/ ToolSearchFinish \/ ToolPollUpload
    \/ ToolNext \/ StreamToolMessage

Spec == Init /\ [][Next]_vars

\* a turn that has started keeps running: the script runs the graph, the
\* graph its nodes, and a poll loop polls again
TurnRuns ==
    \/ ModelStep \/ RecursionError
    \/ ToolSearchStart \/ ToolSearchResult \/ ToolSearchFinish \/ ToolPollUpload
    \/ ToolNext \/ StreamToolMessage
FairSpec == Spec /\ WF_vars(TurnRuns)

\* one call of the search tool, recorded in full
SInit ==
    /\ IdleRenumberer
    /\ IdleSession
    /\ \E files \in InitialStores : IdleStore(files)

ObservedStart == SearchStart(TRUE) /\ UNCHANGED <<sessionvars, rvars>>
ObservedResult == SearchResult(TRUE) /\ UNCHANGED <<sessionvars, rvars>>
ObservedFinish == SearchFinish(TRUE) /\ UNCHANGED <<sessionvars, rvars>>
ObservedPoll == PollUpload /\ UNCHANGED <<sessionvars, rvars>>

SNext == ObservedStart \/ ObservedResult \/ ObservedFinish \/ ObservedPoll

SpecSearch == SInit /\ [][SNext]_vars

(***************************************************************************)
(* The renumberer applied to an answer, and applied again to its output.   *)
(***************************************************************************)
RInit ==
    /\ \E S \in SUBSET Nums, h \in HeaderForms, L \in LineSets, tr \in TrailerForms :
            text = AnswerText(S, h, L, tr)
    /\ out = <<>>
    /\ passes = 0
    /\ rendered = <<>>
    /\ IdleSession
    /\ IdleStore(<<>>)

\* streamlit_app.py:209-220 extract_text_content of a message whose content is
\* a str gives the string itself
extract_text_content(message_content) == message_content

\* streamlit_app.py:568-569 full_response_display = renumber_inline_citations(...)
\* is shown; line 575 stores the answer as it came from the model
Renumber ==
    /\ passes = 0
    /\ out' = renumber_inline_citations(text)
    /\ rendered' = out'
    /\ passes' = 1
    /\ UNCHANGED <<text, storevars, callvars, sessionvars>>

\* the renumberer run on its own output
RenumberAgain ==
    /\ passes = 1
    /\ out' = renumber_inline_citations(out)
    /\ passes' = 2
    /\ UNCHANGED <<text, rendered, storevars, callvars, sessionvars>>

\* streamlit_app.py:412-417: a rerun of the script draws the chat history,
\* st.markdown(extract_text_content(message.content)) of the stored message
RenderHistory ==
    /\ passes >= 1
    /\ rendered' = extract_text_content(text)
    /\ UNCHANGED <<text, out, passes, storevars, callvars, sessionvars>>

RNext == Renumber \/ RenumberAgain \/ RenderHistory

SpecRenumber == RInit /\ [][RNext]_vars

\* the tool results of a conversation, one after the other: each ToolMessage
\* carries a provenance block that names up to MaxResults documents, and the
\* handler (lines 538-549) extracts it and adds to the ledger
LedgerUrls == {UrlA1, UrlBA}
LedgerJson == {[url |-> u, filename |-> Basename(u), uri |-> f,
                citation_number |-> 1, was_reused |-> b] :
                    u \in LedgerUrls, f \in 1..MaxFiles, b \in BOOLEAN}
LedgerBlocks == UNION {[1..n -> LedgerJson] : n \in 1..MaxResults}

LInit ==
    /\ IdleRenumberer
    /\ IdleSession
    /\ \E files \in InitialStores : IdleStore(files)

LedgerToolResult ==
    /\ \E block \in LedgerBlocks :
        /\ toolOut' = <<OT("OPEN", 0, <<>>), OT("JSON", 0, block), OT("CLOSE", 0, <<>>)>>
        /\ auto_uploaded_pdfs' =
                AddToLedger(auto_uploaded_pdfs,
                            extract_auto_uploaded_pdfs(toolOut', Listing(TRUE, store)))
    /\ UNCHANGED <<storevars, call, log, uploaded_files, messages, pc, steps, pending,
                   shown, turn_start, tool_calls_history, delete_failed, rvars>>

LNext == LedgerToolResult

SpecLedger == LInit /\ [][LNext]_vars

\* the renumberer on answers with one-digit and two-digit citation numbers
DInit ==
    /\ \E S \in SUBSET SubstringNums, L \in SubstringLineSets :
            text = AnswerText(S, <<NL, H, NL>>, L, <<>>)
    /\ out = <<>>
    /\ passes = 0
    /\ rendered = <<>>
    /\ IdleSession
    /\ IdleStore(<<>>)

SpecSubstring == DInit /\ [][RNext]_vars

(***************************************************************************)
(* Claims about the renumberer.                                            *)
(***************************************************************************)
\* the mapping the renumberer records for the answer text
RecordedMapping == CitationMapping(SplitLines(SourcesText(text)))

\* C1: after renumber_inline_citations, every inline marker [origNum] that
\* stands before the Sources header and whose origNum is recorded in the
\* mapping reads [seqNum] in the output (unchanged when origNum = seqNum),
\* for every recorded mapping, chained ones (2->1 with 3->2) included.
C1_InlineMarkersRenumbered ==
    (passes = 1 /\ SourcesMatch(text) # 0) =>
        \A i \in 1..(FindSources(text) - 1) :
            (text[i].k = "M" /\ text[i].n \in DOMAIN RecordedMapping)
                => out[i] = M(RecordedMapping[text[i].n])

\* C3: the renumberer is idempotent on its own output: applying it to the
\* text it returned gives that text again, whether or not text follows the
\* Sources section.
C3_RenumberIdempotent ==
    passes = 2 => out = renumber_inline_citations(text)

\* no "## Sources" of t is followed by a line break with at most whitespace
\* in between
NoHeaderWithBreak(t) ==
    \A i \in 1..Len(t) :
        t[i].k = "H" =>
            ~\E j \in (i+1)..Len(t) :
                t[j].k = "NL" /\ \A m \in (i+1)..(j-1) : IsWs(t[m])

\* C11: a text without a Sources header followed by a line break comes back
\* unchanged, token for token.
C11_NoHeaderNoChange ==
    (passes = 1 /\ NoHeaderWithBreak(text)) => out = text

\* a text with a header that no line break follows, inline markers and an
\* annotated line that would renumber them
C11_Witness ==
    /\ passes = 1
    /\ NoHeaderWithBreak(text)
    /\ \E i, j, m \in 1..Len(text) :
          /\ i < j /\ j < m /\ m > 4
          /\ text[i].k = "M" /\ text[j].k = "H" /\ text[m].k = "A"
          /\ text[m].n = text[i].n
          /\ text[m - 4].k = "M" /\ text[m - 4].n # text[i].n

\* C12: an inline marker whose number has no entry in the mapping, or maps
\* to itself, is the same in the output, whatever other numbers are
\* rewritten: [11] stays when [1] is rewritten.
C12_OtherMarkersUntouched ==
    (passes = 1 /\ SourcesMatch(text) # 0) =>
        \A i \in 1..(FindSources(text) - 1) :
            (/\ text[i].k = "M"
             /\ (text[i].n \in DOMAIN RecordedMapping
                    => RecordedMapping[text[i].n] = text[i].n))
                => out[i] = text[i]

\* the answer cites [1] and [11]; the mapping changes 1 and keeps 11
C12_Witness ==
    /\ passes = 1
    /\ SourcesMatch(text) # 0
    /\ DOMAIN RecordedMapping = {1, 11}
    /\ RecordedMapping[1] = 2
    /\ RecordedMapping[11] = 11
    /\ \E i, j \in 1..(FindSources(text) - 1) :
          /\ text[i] = M(1) /\ out[i] = M(2)
          /\ text[j] = M(11) /\ out[j] = M(11)

\* the tokens of t that are neither whitespace nor an annotation
Significant(t) == SelectSeq(t, LAMBDA x : ~IsWs(x) /\ x.k # "A")

\* C13: when no Sources line has the annotated form, the output is the
\* input without its annotations: every other token, before the header, in
\* the section and after the section's blank line, is there and unchanged.
C13_NoMappingOnlyStrips ==
    (passes = 1 /\ SourcesMatch(text) # 0 /\ DOMAIN RecordedMapping = {})
        => Significant(out) = Significant(text)

\* the lines of the Sources section and the number a line begins with
SectionLines(t) == SplitLines(SourcesText(t))
LeadNum(line) ==
    LET ms == {j \in 1..Len(line) : line[j].k = "M"}
    IN  IF ms = {} THEN 0 ELSE line[SetMin(ms)].n

\* C14: after the renumberer the text from the Sources header on holds no
\* annotation, on lines that gave a mapping entry and on lines that did
\* not, and every Sources line begins with the number it began with.
C14_SourcesCleaned ==
    (passes = 1 /\ SourcesMatch(text) # 0) =>
        /\ SourcesMatch(out) # 0
        /\ \A i \in FindSources(out)..Len(out) : out[i].k # "A"
        /\ Len(SectionLines(out)) = Len(SectionLines(text))
        /\ \A i \in 1..Len(SectionLines(text)) :
              LeadNum(SectionLines(out)[i]) = LeadNum(SectionLines(text)[i])

\* a section with a line that gave a mapping entry which renumbers an
\* inline marker, and an annotated line without the dash that gave none
C14_Witness ==
    /\ passes = 1
    /\ SourcesMatch(text) # 0
    /\ out # text
    /\ \E o \in DOMAIN RecordedMapping :
          /\ RecordedMapping[o] # o
          /\ \E i \in 1..(FindSources(text) - 1) : text[i] = M(o)
    /\ \E i \in 1..Len(SectionLines(text)) :
          /\ LineMatchAt(SectionLines(text)[i]) = 0
          /\ \E j \in 1..Len(SectionLines(text)[i]) : SectionLines(text)[i][j].k = "A"

\* C15: the sequential numbers of the mapping are exactly 1..k for k
\* recorded original numbers, none of them used twice.
C15_MappingDense ==
    (passes = 1 /\ SourcesMatch(text) # 0) =>
        {RecordedMapping[o] : o \in DOMAIN RecordedMapping}
            = 1..Cardinality(DOMAIN RecordedMapping)

(***************************************************************************)
(* Claims about one call of dental_guideline_search.                       *)
(***************************************************************************)
\* the call has returned a table for a non-empty result list
TableReturned == call.pc = "returned" /\ log.provider = "ok" /\ log.n > 0

\* the tokens of kind k in the returned text, in order
TokensOf(k) == SelectSeq(toolOut, LAMBDA t : t.k = k)

\* result i was a PDF result whose resolution was tried and gave no file
ResolutionFailed(i) ==
    /\ call.auto
    /\ detect_pdf_url(log.results[i].url)
    /\ log.results[i].r.gemini_file = 0

\* C2: for a non-empty result list of length N, the returned table holds
\* exactly the entries [1]..[N], in provider order (entry i carries the URL
\* of result i), without gap or repeat, whichever PDF results fail.
C2_TableNumbering ==
    TableReturned =>
        /\ Len(TokensOf("ENTRY")) = log.n
        /\ Len(TokensOf("URL")) = log.n
        /\ \A i \in 1..log.n :
              /\ TokensOf("ENTRY")[i].n = i
              /\ TokensOf("URL")[i] = OT("URL", i, <<log.results[i].url>>)

\* a table of two results whose first PDF resolution raised
C2_Witness ==
    /\ TableReturned
    /\ log.n = 2
    /\ ResolutionFailed(1)
    /\ log.results[1].env.exc

\* C4: the store never holds two entries uploaded by the search tool under
\* the same filename.
C4_NoDuplicateUpload ==
    \A i, j \in 1..Len(store) :
        (i # j /\ store[i].owner = "auto" /\ store[j].owner = "auto")
            => store[i].display_name # store[j].display_name

\* the block the tool appended: the JSON array that follows the citation
\* rules, <<>> when the tool appended none
AppendedBlock ==
    LET rules == {j \in 1..Len(toolOut) : toolOut[j].k = "RULES"}
        r == SetMax(rules)
    IN  IF rules = {} \/ r + 2 > Len(toolOut) THEN <<>> ELSE toolOut[r + 2].v

\* C7: a PDF result whose resolution failed is still emitted with its
\* number, its URL and its content, carries no PDF annotation and has no
\* entry in the provenance list, and every other result is emitted too.
C7_DegradeOnFailure ==
    TableReturned =>
        \A i \in 1..log.n :
            ResolutionFailed(i) =>
                /\ \E p \in 1..Len(toolOut) : toolOut[p] = OT("ENTRY", i, <<>>)
                /\ \E p \in 1..Len(toolOut) :
                        toolOut[p] = OT("URL", i, <<log.results[i].url>>)
                /\ \E p \in 1..Len(toolOut) : toolOut[p] = OT("CONTENT", i, <<>>)
                /\ \A p \in 1..Len(toolOut) :
                        ~(toolOut[p].k \in {"NOTE", "REUSED"} /\ toolOut[p].n = i)
                /\ \A p \in 1..Len(call.pdfs) : call.pdfs[p].citation_number # i
                /\ \A p \in 1..Len(AppendedBlock) : AppendedBlock[p].citation_number # i
                /\ \A j \in 1..log.n :
                        \E p \in 1..Len(toolOut) : toolOut[p] = OT("ENTRY", j, <<>>)

\* a table whose first result was too large to download and whose second
\* result was resolved
C7_Witness ==
    /\ TableReturned
    /\ log.n = 2
    /\ ResolutionFailed(1)
    /\ log.results[1].env.resp = "too_large"
    /\ log.results[1].r.downloaded
    /\ log.results[2].r.pdf_uploaded

\* the entries the provenance block is to hold: one per resolved result
RECURSIVE ResolvedEntries(_)
ResolvedEntries(i) ==
    IF i = 0 THEN <<>>
    ELSE ResolvedEntries(i - 1)
         \o (IF log.results[i].r.pdf_uploaded
             THEN <<[url |-> log.results[i].url,
                     filename |-> Basename(log.results[i].url),
                     uri |-> log.results[i].r.gemini_file,
                     citation_number |-> i,
                     was_reused |-> log.results[i].r.was_reused]>>
             ELSE <<>>)

\* what the handler reads from the returned text, without the file objects
ExtractedEntries ==
    LET found == extract_auto_uploaded_pdfs(toolOut, Listing(TRUE, store))
    IN  [j \in 1..Len(found) |->
            [url |-> found[j].url, filename |-> found[j].filename, uri |-> found[j].uri,
             citation_number |-> found[j].citation_number,
             was_reused |-> found[j].was_reused]]

\* C8: the block the tool appends holds one entry per resolved result, in
\* table order and with the table number, it is absent when nothing was
\* resolved, and extract_auto_uploaded_pdfs returns those same values.
C8_BlockRoundTrip ==
    TableReturned =>
        /\ AppendedBlock = ResolvedEntries(log.n)
        /\ ExtractedEntries = ResolvedEntries(log.n)

\* the store as it was when result i came up
StoreBefore(i) == IF i = 1 THEN log.before ELSE log.results[i - 1].r.store

\* C9: when the store holds an entry that matches a PDF result (and the
\* listing of the store was read), resolving the result downloads nothing,
\* uploads nothing, leaves the store as it is and reports that entry with
\* was_reused = true.
C9_ResolveReuses ==
    (call.pc \in {"loop", "returned", "polling"} /\ call.auto /\ call.cache.ok) =>
        \A i \in 1..Len(log.results) :
            LET res == log.results[i]
                match == check_existing_gemini_file(res.url, Basename(res.url), NoCache,
                                                    Listing(TRUE, StoreBefore(i)))
            IN  (detect_pdf_url(res.url) /\ match # 0 /\ ~res.env.exc) =>
                    /\ ~res.r.downloaded
                    /\ ~res.r.uploaded
                    /\ res.r.store = StoreBefore(i)
                    /\ res.r.gemini_file = match
                    /\ res.r.was_reused

C17_NoResultsOnly ==
    (call.pc # "idle" /\ log.provider = "ok" /\ log.n = 0) =>
        /\ call.pc = "returned"
        /\ toolOut = <<OT("NORESULTS", 0, <<>>)>>
        /\ call.cache = NoCache
        /\ call.pdfs = <<>>
        /\ store = log.before

\* an empty result list with auto-upload on and documents in the store
C17_Witness ==
    /\ call.pc = "returned"
    /\ log.provider = "ok"
    /\ log.n = 0
    /\ call.auto
    /\ store # <<>>

\* C19: when the listing holds an entry whose display name equals the file
\* name of a PDF result, the entry the lookup returns is one with an equal
\* display name, also when an entry that merely contains the name is
\* listed earlier.
C19_ExactBeforeContainment ==
    (call.pc \in {"loop", "returned", "polling"} /\ call.auto) =>
        \A i \in 1..Len(log.results) :
            LET res == log.results[i]
                nf == LowerName(Basename(res.url))
                listed == IF call.cache.ok THEN call.cache.files ELSE StoreBefore(i)
                exact == {m \in 1..Len(listed) : LowerName(listed[m].display_name) = nf}
            IN  (/\ detect_pdf_url(res.url)
                 /\ res.r.pdf_uploaded /\ res.r.was_reused
                 /\ exact # {}) =>
                    \E m \in exact : listed[m].id = res.r.gemini_file

\* C20: a download whose response has a content type other than
\* application/pdf ends the resolution: nothing is uploaded and the entry
\* stays a web citation, also for a URL that ends in .pdf.
C20_NonPdfContentAborts ==
    (call.pc \in {"loop", "returned", "polling"} /\ call.auto) =>
        \A i \in 1..Len(log.results) :
            (log.results[i].r.downloaded /\ log.results[i].env.resp = "html") =>
                /\ ~log.results[i].r.uploaded
                /\ ~log.results[i].r.pdf_uploaded
                /\ log.results[i].r.store = StoreBefore(i)

\* C21: the lookup returns an entry when the file name of the result is
\* contained in the entry's display name and also when the entry's display
\* name is contained in the file name of the result.
C21_ContainmentEitherWay ==
    (call.pc \in {"loop", "returned", "polling"} /\ call.auto) =>
        \A i \in 1..Len(log.results) :
            LET res == log.results[i]
                nf == LowerName(Basename(res.url))
                listed == IF call.cache.ok THEN call.cache.files ELSE StoreBefore(i)
            IN  (/\ detect_pdf_url(res.url) /\ ~res.env.exc
                 /\ call.cache.ok \/ res.env.list1
                 /\ \E m \in 1..Len(listed) :
                       \/ NameIn(nf, LowerName(listed[m].display_name))
                       \/ NameIn(LowerName(listed[m].display_name), nf))
                    => res.r.was_reused /\ res.r.gemini_file # 0

\* C25: an entry is reported with was_reused = false only when the store
\* entry behind its handle was created by this call's own upload; a handle
\* that upload_pdf_to_gemini found in the store is reported as reused.
C25_FreshOnlyWhenUploaded ==
    (call.pc \in {"loop", "returned", "polling"} /\ call.auto) =>
        \A i \in 1..Len(log.results) :
            LET res == log.results[i]
            IN  (res.r.pdf_uploaded /\ ~res.r.was_reused) => res.r.uploaded

\* the tokens of t that are not whitespace
Visible(t) == SelectSeq(t, LAMBDA x : ~IsWs(x))

\* C28: whenever the answer is on the screen, when it is first shown and when
\* the chat history is drawn again, the text shown is the renumbered text
\* without the annotations (whitespace apart).
C28_RenderedIsRenumbered ==
    passes >= 1 => Visible(rendered) = Visible(renumber_inline_citations(text))

(***************************************************************************)
(* Claims about the session.                                               *)
(***************************************************************************)
\* C5: no step of the session deletes a store entry that the ledger holds
\* with was_reused = true.
C5_ReusedNeverDeleted ==
    [][\A j \in 1..Len(auto_uploaded_pdfs) :
          (auto_uploaded_pdfs[j].was_reused /\ auto_uploaded_pdfs[j].uri \in StoreIds)
              => auto_uploaded_pdfs[j].uri \in {store'[m].id : m \in 1..Len(store')}]_vars

\* C6: a reset whose delete calls all succeed leaves none of the session's
\* own documents in the store.
C6_ResetDeletesOwn ==
    [][ResetWith(TRUE, {})
          => OwnDocuments \cap {store'[m].id : m \in 1..Len(store')} = {}]_vars

\* C10: a turn that has started ends.
C10_TurnEnds == (pc \in {"model", "tools", "in_tools"}) ~> (pc = "idle")

\* C18: an upload poll loop that has begun comes to an end: the search call
\* returns.
C18_PollLoopEnds == (call.pc = "polling") ~> (call.pc # "polling")


\* a step that ends the running turn: the handler of st.chat_input returns
TurnEnds == pc # "idle" /\ pc' = "idle"

\* C22: when a turn ends in an error (step ceiling exceeded or an exception
\* while streaming), the stored messages, the user-upload list and the
\* auto-upload ledger are what they were before the turn began.
C22_ErrorTurnLeavesState ==
    [][(TurnEnds /\ shown' = "error") =>
            /\ messages' = turn_start.messages
            /\ uploaded_files' = turn_start.uploaded_files
            /\ auto_uploaded_pdfs' = turn_start.auto_uploaded_pdfs]_vars

\* C23: reset_conversation always leaves the messages, the tool-call history,
\* the user-upload list and the ledger empty, also when genai.configure or a
\* delete call fails; a failed delete does not stop the other deletes and no
\* error is shown.
C23_ResetAlwaysClears ==
    [][\A configured \in BOOLEAN, failing \in SUBSET StoreIds :
          ResetWith(configured, failing) =>
              /\ messages' = <<>> /\ tool_calls_history' = <<>>
              /\ uploaded_files' = <<>> /\ auto_uploaded_pdfs' = <<>>
              /\ shown' # "error"
              /\ configured =>
                    \A id \in (ResetTargets \cap StoreIds) \ failing :
                        id \notin {store'[m].id : m \in 1..Len(store')}]_vars

\* a reset in which a delete call failed has run after a turn with a tool
\* call and an answer, and another of the session's documents is gone
C23_Witness ==
    /\ delete_failed # {} /\ delete_failed \subseteq StoreIds
    /\ nextId - 1 > Len(store)
    /\ steps > 1 /\ pc = "idle"
    /\ messages = <<>> /\ tool_calls_history = <<>>
    /\ uploaded_files = <<>> /\ auto_uploaded_pdfs = <<>>

\* C24: the ledger holds at most one entry for a source URL, and a tool
\* result leaves the entries already recorded as they are (a later report of
\* a recorded URL, whatever its was_reused, changes nothing).
C24_LedgerOnePerUrl ==
    [][/\ \A i, j \in 1..Len(auto_uploaded_pdfs') :
            i # j => auto_uploaded_pdfs'[i].url # auto_uploaded_pdfs'[j].url
       /\ Len(auto_uploaded_pdfs') >= Len(auto_uploaded_pdfs)
       /\ SubSeq(auto_uploaded_pdfs', 1, Len(auto_uploaded_pdfs)) = auto_uploaded_pdfs]_vars

\* the ledger holds a document recorded with was_reused = false by an earlier
\* tool result, and the tool result handled last reported its URL, with
\* was_reused = true
C24_Witness ==
    /\ Len(toolOut) = 3 /\ toolOut[2].k = "JSON"
    /\ \E j \in 1..Len(auto_uploaded_pdfs) :
          /\ ~auto_uploaded_pdfs[j].was_reused
          /\ \E m \in 1..Len(toolOut[2].v) :
                toolOut[2].v[m].url = auto_uploaded_pdfs[j].url
          /\ \A m \in 1..Len(toolOut[2].v) :
                toolOut[2].v[m].url = auto_uploaded_pdfs[j].url
                    => toolOut[2].v[m].was_reused

\* C26: when a turn ends, every PDF that a search call of the turn uploaded
\* (a document of the store that the turn did not find there, reported in
\* the call's provenance block with was_reused = false) has a ledger entry
\* that carries its store handle.
C26_FreshUploadsInLedger ==
    [][TurnEnds =>
          \A m \in 1..Len(store') :
              (/\ store'[m].owner = "auto" /\ store'[m].state = "ACTIVE"
               /\ store'[m].id \notin turn_start.files)
                  => \E j \in 1..Len(auto_uploaded_pdfs') :
                        auto_uploaded_pdfs'[j].gemini_file = store'[m].id]_vars

\* C27: every handle the session holds, in the user-upload list and in the
\* ledger, is the handle of a document that is in the store.
C27_HandlesExist ==
    /\ \A j \in 1..Len(uploaded_files) : uploaded_files[j].gemini_file \in StoreIds
    /\ \A j \in 1..Len(auto_uploaded_pdfs) :
          auto_uploaded_pdfs[j].gemini_file # 0
              => auto_uploaded_pdfs[j].gemini_file \in StoreIds

\* C29: the entries a tool result adds to the ledger are PDFs that the search
\* call resolved: each has the URL and the handle of an entry of the call's
\* auto_uploaded_pdfs, whatever the text of the search results.
C29_LedgerFromResolvedOnly ==
    [][\A j \in (Len(auto_uploaded_pdfs) + 1)..Len(auto_uploaded_pdfs') :
          \E m \in 1..Len(call.pdfs) :
              /\ call.pdfs[m].url = auto_uploaded_pdfs'[j].url
              /\ call.pdfs[m].gemini_file = auto_uploaded_pdfs'[j].uri]_vars

\* C30: between turns the stored history is a sequence of user message /
\* assistant message pairs.
C30_HistoryInPairs ==
    pc = "idle" =>
        /\ Len(messages) % 2 = 0
        /\ \A i \in 1..Len(messages) :
              messages[i] = IF i % 2 = 1 THEN "user" ELSE "ai"

====
